---- MODULE Spec2Model ----
(***************************************************************************)
(* BizPulse estimation core: the aggregator (utils/data_loader.py), the    *)
(* segmentation (utils/segmentation.py), the frequency model, the value    *)
(* model and the churn scorer (utils/models.py).                           *)
(*                                                                         *)
(* Conventions of the model                                                *)
(*   - a DataFrame is a sequence of records, one per row, in row order;    *)
(*   - a float is an exact rational [num, den] with den > 0, and NaN is    *)
(*     the pair with den = 0; every comparison with NaN is false, as in    *)
(*     IEEE arithmetic (binary rounding is not modelled);                  *)
(*   - an optional value (None, NaT, NaN in an integer column) is the      *)
(*     empty tuple << >>, a present value v is <<v>>;                      *)
(*   - a timestamp is a number of ticks, TicksPerDay ticks to a calendar   *)
(*     day; a calendar date d is the day number, midnight of d is          *)
(*     d * TicksPerDay.                                                    *)
(*   - df[mask] is SelectSeq(df, Mask): the rows that satisfy the mask, in  *)
(*     row order;                                                          *)
(*   - the email and phone columns are carried by no computation of the    *)
(*     core and are left out of the rows.                                  *)
(***************************************************************************)
EXTENDS Integers, Sequences, FiniteSets, TLC

VARIABLES
    uploaded_file,    \* the rows of the uploaded CSV (pd.read_csv's result)
    raw_data,         \* load_and_process_csv's result: [loaded, df]
    agg_call,         \* the arguments of the last aggregate_to_customers call
    customer_df,      \* the customer table the components consume
    segmented,        \* assign_segments' result: [called, df]
    segment_summary,  \* get_segment_summary's result: [called, df]
    clv_results,      \* fit_gamma_gamma's result: [called, ...]
    churn_results,    \* get_churn_summary's result: [called, ...]
    rescaled_results, \* the scorer's result on the table with rescaled days
    nbd_results,      \* fit_zt_nbd's result: [called, ...]
    session,          \* st.session_state, shared by the home page and the pages
    pc,               \* the position of the script run that renders the dashboard
    churn_page,       \* the Churn page's result: [called, high_risk]
    wizard_data       \* process_and_finalize's result: [called, df]

vars == <<uploaded_file, raw_data, agg_call, customer_df, segmented,
          segment_summary, clv_results, churn_results, rescaled_results,
          nbd_results, session, pc, churn_page, wizard_data>>

----------------------------------------------------------------------------
(* Bounds of the model *)

\* frequencies tried by the segmentation run from -FreqBelow to MaxFreq
FreqBelow == 2
MaxFreq == 1001
\* rows of an uploaded CSV
MaxRows == 2
\* ticks per calendar day
TicksPerDay == 2
\* customers of a table handed directly to the value model
MaxCustomers == 23

----------------------------------------------------------------------------
(* Values *)

None == << >>
Some(v) == <<v>>
IsSome(o) == o # << >>
Val(o) == o[1]

Rat(n, d) == [num |-> n, den |-> d]
NaN == Rat(0, 0)
IsNaN(a) == a.den = 0
Int2Rat(n) == Rat(n, 1)

Abs(n) == IF n < 0 THEN 0 - n ELSE n

RECURSIVE Gcd(_, _)
Gcd(a, b) == IF b = 0 THEN a ELSE Gcd(b, a % b)

\* the fraction n/d in lowest terms, d > 0
Reduced(n, d) ==
    LET g == Gcd(Abs(n), d) IN Rat(n \div g, d \div g)

RatAdd(a, b) ==
    IF IsNaN(a) \/ IsNaN(b) THEN NaN
    ELSE Reduced(a.num * b.den + b.num * a.den, a.den * b.den)
RatMul(a, b) ==
    IF IsNaN(a) \/ IsNaN(b) THEN NaN
    ELSE LET g == Gcd(Abs(a.num), b.den)
             h == Gcd(Abs(b.num), a.den)
         IN  Reduced((a.num \div g) * (b.num \div h),
                     (a.den \div h) * (b.den \div g))
\* a / b; a division by zero is not a finite number
RatDiv(a, b) ==
    IF IsNaN(a) \/ IsNaN(b) \/ b.num = 0 THEN NaN
    ELSE LET g == Gcd(a.den, b.den)
             sign == IF b.num < 0 THEN -1 ELSE 1
         IN  Reduced(sign * a.num * (b.den \div g),
                     (a.den \div g) * Abs(b.num))
RatEq(a, b) == ~IsNaN(a) /\ ~IsNaN(b) /\ a.num * b.den = b.num * a.den
RatLt(a, b) == ~IsNaN(a) /\ ~IsNaN(b) /\ a.num * b.den < b.num * a.den
RatLe(a, b) == ~IsNaN(a) /\ ~IsNaN(b) /\ a.num * b.den <= b.num * a.den

SetMin(S) == CHOOSE x \in S : \A y \in S : x <= y
SetMax(S) == CHOOSE x \in S : \A y \in S : y <= x

RECURSIVE SumSeq(_)
SumSeq(s) == IF s = << >> THEN 0 ELSE Head(s) + SumSeq(Tail(s))

Column(df, col) == [i \in 1..Len(df) |-> df[i][col]]

\* a customer row with the columns aggregate_to_customers produces
Customer(name, freq, total, avg, days) ==
    [client_name |-> name, frequency |-> freq, recency |-> None,
     first_visit |-> None, total_spend |-> total,
     avg_spend |-> avg, days_since_visit |-> days]

NotCalled == [called |-> FALSE]

\* the defaults of the session keys
init_session_state ==
    [logged_in |-> FALSE, data_loaded |-> FALSE, business_name |-> None,
     email |-> None, raw_data |-> None, customer_data |-> None,
     current_view |-> "login"]

----------------------------------------------------------------------------
(* utils/segmentation.py *)

\* the dict in insertion order, which is the order assign_segment tries
SEGMENT_DEFINITIONS ==
    << [segment |-> "Explorer",  min |-> 1,  max |-> 2],
       [segment |-> "Casual",    min |-> 3,  max |-> 8],
       [segment |-> "Regular",   min |-> 9,  max |-> 12],
       [segment |-> "Superuser", min |-> 13, max |-> 999] >>

SegmentNames == {"Explorer", "Casual", "Regular", "Superuser"}

\* assign_segment with a fallback outside the four tiers
assign_segment_mut_fallback(frequency) ==
    LET hit == {i \in DOMAIN SEGMENT_DEFINITIONS :
                  /\ SEGMENT_DEFINITIONS[i].min <= frequency
                  /\ frequency <= SEGMENT_DEFINITIONS[i].max}
    IN  IF hit = {} THEN "Unknown"
        ELSE SEGMENT_DEFINITIONS[SetMin(hit)].segment

\* assign_segment with the lower end of every range excluded
assign_segment_mut_strict(frequency) ==
    LET hit == {i \in DOMAIN SEGMENT_DEFINITIONS :
                  /\ SEGMENT_DEFINITIONS[i].min < frequency
                  /\ frequency <= SEGMENT_DEFINITIONS[i].max}
    IN  IF hit = {} THEN "Explorer"
        ELSE SEGMENT_DEFINITIONS[SetMin(hit)].segment

\* the first entry whose range holds the frequency, else the fallback
assign_segment(frequency) ==
    LET hit == {i \in DOMAIN SEGMENT_DEFINITIONS :
                  /\ SEGMENT_DEFINITIONS[i].min <= frequency
                  /\ frequency <= SEGMENT_DEFINITIONS[i].max}
    IN  IF hit = {} THEN "Explorer"
        ELSE SEGMENT_DEFINITIONS[SetMin(hit)].segment

\* a copy of the table with the segment column added
assign_segments(df) ==
    [i \in 1..Len(df) |->
        [client_name |-> df[i].client_name,
         frequency |-> df[i].frequency,
         recency |-> df[i].recency,
         first_visit |-> df[i].first_visit,
         total_spend |-> df[i].total_spend,
         avg_spend |-> df[i].avg_spend,
         days_since_visit |-> df[i].days_since_visit,
         segment |-> assign_segment(df[i].frequency)]]

segment_order ==
    [s \in SegmentNames |->
        CASE s = "Explorer" -> 0 [] s = "Casual" -> 1
          [] s = "Regular" -> 2 [] s = "Superuser" -> 3]

\* one row per segment present in the table, sorted by segment_order
get_segment_summary(df) ==
    LET present == {df[i].segment : i \in 1..Len(df)}
        InSeg(s) == LET Is(row) == row.segment = s IN SelectSeq(df, Is)
        Stat(s) ==
            LET g == InSeg(s)
            IN  [segment |-> s,
                 customer_count |-> Len(g),
                 total_revenue |-> SumSeq(Column(g, "total_spend")),
                 avg_revenue |-> Rat(SumSeq(Column(g, "total_spend")), Len(g)),
                 avg_frequency |-> Rat(SumSeq(Column(g, "frequency")), Len(g))]
        RECURSIVE Sorted(_)
        Sorted(S) ==
            IF S = {} THEN << >>
            ELSE LET s == CHOOSE x \in S :
                            \A y \in S : segment_order[x] <= segment_order[y]
                 IN  <<Stat(s)>> \o Sorted(S \ {s})
    IN  Sorted(present)

----------------------------------------------------------------------------
(* The segmentation applied to customer tables *)

\* the frequencies of the twelve-customer scenario
ScenarioFrequencies == <<1, 1, 1, 2, 2, 3, 4, 5, 9, 10, 13, 15>>

FrequencyTable(fs) ==
    [i \in 1..Len(fs) |-> Customer(i, fs[i], 0, Int2Rat(0), Some(0))]

Frequencies == (0 - FreqBelow)..MaxFreq

\* the frequencies next to a boundary of SEGMENT_DEFINITIONS
BoundaryFrequencies ==
    UNION {{SEGMENT_DEFINITIONS[i].min - 1, SEGMENT_DEFINITIONS[i].min,
            SEGMENT_DEFINITIONS[i].max, SEGMENT_DEFINITIONS[i].max + 1} :
           i \in DOMAIN SEGMENT_DEFINITIONS}

SegTables ==
    {FrequencyTable(ScenarioFrequencies)}
      \cup {FrequencyTable(<<f>>) : f \in Frequencies}
      \cup {FrequencyTable(<<f, g>>) :
              f \in Frequencies, g \in BoundaryFrequencies}

Idle ==
    /\ uploaded_file = [columns |-> {}, rows |-> << >>]
    /\ raw_data = NotCalled
    /\ agg_call = NotCalled
    /\ segmented = NotCalled
    /\ segment_summary = NotCalled
    /\ clv_results = NotCalled
    /\ churn_results = NotCalled
    /\ rescaled_results = NotCalled
    /\ nbd_results = NotCalled
    /\ session = init_session_state
    /\ pc = "idle"
    /\ churn_page = NotCalled
    /\ wizard_data = NotCalled

InitSeg ==
    /\ customer_df \in SegTables
    /\ Idle

AssignSegments ==
    /\ ~segmented.called
    /\ segmented' = [called |-> TRUE, df |-> assign_segments(customer_df)]
    /\ UNCHANGED <<rescaled_results, nbd_results>>
    /\ UNCHANGED <<session, pc, churn_page, wizard_data>>
    /\ UNCHANGED <<uploaded_file, raw_data, agg_call, customer_df,
                   segment_summary, clv_results, churn_results>>

GetSegmentSummary ==
    /\ segmented.called
    /\ ~segment_summary.called
    /\ segment_summary' =
         [called |-> TRUE, df |-> get_segment_summary(segmented.df)]
    /\ UNCHANGED <<rescaled_results, nbd_results>>
    /\ UNCHANGED <<session, pc, churn_page, wizard_data>>
    /\ UNCHANGED <<uploaded_file, raw_data, agg_call, customer_df,
                   segmented, clv_results, churn_results>>

NextSeg == AssignSegments \/ GetSegmentSummary

SpecSeg == InitSeg /\ [][NextSeg]_vars

----------------------------------------------------------------------------
(* utils/data_loader.py *)

\* the fallback price of SERVICE_PRICES
SERVICE_PRICES_default == 85

\* the format load_and_process_csv parses the start column with
DateFormat == "%m-%d-%Y %I:%M:%S %p"

\* a start cell is a text: the format it is written in and the instant it
\* names; pd.to_datetime(errors="coerce") yields NaT for any other format
to_datetime_coerce(cell) ==
    IF cell.format = DateFormat THEN Some(cell.ticks) ELSE None

\* pd.to_datetime of a calendar date: midnight of that day
to_datetime(date) == date * TicksPerDay

\* service cells are empty in the files of the model (pd.isna)
estimate_price(service) == SERVICE_PRICES_default

RequiredColumns == {"client_name", "start", "status"}

\* a validation that does not ask for the status column
validate_csv_mut_nostatus(file) ==
    LET missing == {"client_name", "start"} \ file.columns
    IN  IF missing # {} THEN [is_valid |-> FALSE, missing |-> missing]
        ELSE [is_valid |-> TRUE, missing |-> {}]

validate_csv(file) ==
    LET missing == RequiredColumns \ file.columns
    IN  IF missing # {} THEN [is_valid |-> FALSE, missing |-> missing]
        ELSE [is_valid |-> TRUE, missing |-> {}]

\* raises on a missing column, else the accepted rows with the start column
\* parsed and the estimated_price column added
load_and_process_csv(file) ==
    IF ~validate_csv(file).is_valid
    THEN [called |-> TRUE, error |-> "ValueError", df |-> << >>]
    ELSE IF "service" \notin file.columns
    THEN [called |-> TRUE, error |-> "KeyError", df |-> << >>]
    ELSE
      LET Accepted(row) == row.status = "accepted"
          kept == SelectSeq(file.rows, Accepted)
          Price(row) ==
              IF \/ "estimated_total_price" \notin file.columns
                 \/ \A i \in 1..Len(kept) : kept[i].estimated_total_price = None
              THEN estimate_price(row.service)
              ELSE IF row.estimated_total_price = None
                   THEN estimate_price(row.service)
                   ELSE Val(row.estimated_total_price)
      IN  [called |-> TRUE, error |-> "none",
           df |-> [i \in 1..Len(kept) |->
                     [client_name |-> kept[i].client_name,
                      start |-> to_datetime_coerce(kept[i].start),
                      status |-> kept[i].status,
                      estimated_price |-> Price(kept[i])]]]

\* the customer identifiers in sorted order (groupby sorts its keys)
Names == <<"ana", "ben">>

\* df[df["start"] >= lo] and df[df["start"] <= hi]: a NaT start compares false
FilterFrom(df, start_date) ==
    IF start_date = None THEN df
    ELSE LET Keep(row) == /\ IsSome(row.start)
                          /\ Val(row.start) >= to_datetime(Val(start_date))
         IN  SelectSeq(df, Keep)

FilterTo(df, end_date) ==
    IF end_date = None THEN df
    ELSE LET Keep(row) == /\ IsSome(row.start)
                          /\ Val(row.start) <= to_datetime(Val(end_date))
         IN  SelectSeq(df, Keep)

\* (today - recency).dt.days: the floor of the difference in days, NaN for NaT
DaysBetween(today, recency) ==
    IF recency = None THEN None
    ELSE Some((today - Val(recency)) \div TicksPerDay)

\* one group of the groupby: count, max and min skip NaT starts
AggregateGroup(name, g, today) ==
    LET starts == {Val(g[i].start) : i \in {j \in 1..Len(g) : IsSome(g[j].start)}}
        recency == IF starts = {} THEN None ELSE Some(SetMax(starts))
        spend == SumSeq(Column(g, "estimated_price"))
    IN  [client_name |-> name,
         frequency |-> Cardinality({j \in 1..Len(g) : IsSome(g[j].start)}),
         recency |-> recency,
         first_visit |-> IF starts = {} THEN None ELSE Some(SetMin(starts)),
         total_spend |-> spend,
         avg_spend |-> Rat(spend, Len(g)),
         days_since_visit |-> DaysBetween(today, recency)]

GroupBy(df, today) ==
    LET RECURSIVE Groups(_)
        Groups(k) ==
            IF k > Len(Names) THEN << >>
            ELSE LET Is(row) == row.client_name = Names[k]
                     g == SelectSeq(df, Is)
                 IN  (IF g = << >> THEN << >>
                      ELSE <<AggregateGroup(Names[k], g, today)>>)
                     \o Groups(k + 1)
    IN  Groups(1)

\* filters that cut the caller's frame in place
CallerFrame_mut_inplace(df, start_date, end_date) ==
    FilterTo(FilterFrom(df, start_date), end_date)

\* the frame the caller passed, after the call: the filters rebind the
\* local name df to a new selection and write nothing into the argument
CallerFrame(df, start_date, end_date) == df

\* aggregate_to_customers with the start of the window excluded
aggregate_to_customers_mut_strict(df, start_date, end_date, today) ==
    LET Keep(row) == /\ IsSome(row.start)
                     /\ Val(row.start) > to_datetime(Val(start_date))
    IN  GroupBy(FilterTo(IF start_date = None THEN df ELSE SelectSeq(df, Keep),
                         end_date), today)

\* today stands for pd.Timestamp.now(), read inside the call
aggregate_to_customers(df, start_date, end_date, today) ==
    GroupBy(FilterTo(FilterFrom(df, start_date), end_date), today)

----------------------------------------------------------------------------
(* utils/models.py: the value model *)

RECURSIVE RatSum(_)
RatSum(s) == IF s = << >> THEN Int2Rat(0) ELSE RatAdd(Head(s), RatSum(Tail(s)))

\* the positions of the k largest keys, largest first, the earlier row first
\* among equal keys (nlargest, keep="first"); NaN keys are never taken
RECURSIVE NLargestFrom(_, _, _)
NLargestFrom(keys, left, k) ==
    IF k = 0 \/ left = {} THEN << >>
    ELSE LET best == CHOOSE i \in left :
                        \A j \in left : \/ RatLt(keys[j], keys[i])
                                        \/ (RatEq(keys[j], keys[i]) /\ i <= j)
         IN  <<best>> \o NLargestFrom(keys, left \ {best}, k - 1)

\* the first k positions in row order in place of the k largest
NLargest_mut_first(keys, k) ==
    [i \in 1..(IF k < Len(keys) THEN k ELSE Len(keys)) |-> i]

NLargest(keys, k) ==
    NLargestFrom(keys, {i \in 1..Len(keys) : ~IsNaN(keys[i])}, k)

\* Series.median(): the middle value, the mean of the two middle values for an
\* even count, NaN for an empty column
Median(keys) ==
    LET n == Len(keys)
        order == NLargest(keys, n)
    IN  IF n = 0 THEN NaN
        ELSE IF n % 2 = 1 THEN keys[order[(n + 1) \div 2]]
        ELSE RatDiv(RatAdd(keys[order[n \div 2]], keys[order[n \div 2 + 1]]),
                    Int2Rat(2))

\* the least number of repeat customers fit_gamma_gamma works with
MinRepeatCustomers == 10

\* the growth factor of the CLV estimate, 1.2
GrowthFactor == Rat(12, 10)

Clv(row) == RatMul(RatMul(row.avg_spend, Int2Rat(row.frequency)), GrowthFactor)

IsRepeat(row) == row.frequency >= 2

\* a customer at or above the median counted as a hidden gem too
IsHiddenGem_mut_atleast(row, median) ==
    row.frequency <= 4 /\ RatLe(median, row.avg_spend)

\* frequency <= 4 and avg_spend above the median of the whole table
IsHiddenGem(row, median) ==
    row.frequency <= 4 /\ RatLt(median, row.avg_spend)

\* fit_gamma_gamma failing at ten repeat customers too
fit_gamma_gamma_mut_threshold(df) ==
    LET repeat == SelectSeq(df, IsRepeat)
    IN  IF Len(repeat) <= MinRepeatCustomers
        THEN [called |-> TRUE, raised |-> "none", success |-> FALSE,
              message |-> "Need at least 10 repeat customers for CLV analysis"]
        ELSE [called |-> TRUE, raised |-> "none", success |-> TRUE,
              repeat_customers |-> << >>, avg_clv |-> NaN, total_clv |-> NaN,
              top_10_pct_clv |-> NaN, hidden_gems |-> << >>,
              n_repeat |-> Len(repeat)]

\* fit_gamma_gamma without the frequency >= 2 filter
fit_gamma_gamma_mut_all(df) ==
    LET repeat == df
        clv == [i \in 1..Len(repeat) |-> Clv(repeat[i])]
    IN  IF Len(repeat) < MinRepeatCustomers
        THEN [called |-> TRUE, raised |-> "none", success |-> FALSE,
              message |-> "Need at least 10 repeat customers for CLV analysis"]
        ELSE [called |-> TRUE, raised |-> "none", success |-> TRUE,
              repeat_customers |->
                  [i \in 1..Len(repeat) |->
                     [client_name |-> repeat[i].client_name,
                      frequency |-> repeat[i].frequency,
                      avg_spend |-> repeat[i].avg_spend,
                      clv |-> clv[i]]],
              avg_clv |-> RatDiv(RatSum(clv), Int2Rat(Len(repeat))),
              total_clv |-> RatSum(clv),
              top_10_pct_clv |-> NaN, hidden_gems |-> << >>,
              n_repeat |-> Len(repeat)]

\* the structured failure below ten repeat customers, else the CLV of every
\* repeat customer, the summary statistics and the hidden gems
fit_gamma_gamma(df) ==
    LET repeat == SelectSeq(df, IsRepeat)
        clv == [i \in 1..Len(repeat) |-> Clv(repeat[i])]
        n_top == IF Len(repeat) \div 10 = 0 THEN 1 ELSE Len(repeat) \div 10
        top == NLargest(clv, n_top)
        spend == Column(df, "avg_spend")
        median == Median(spend)
        IsGem(i) == IsHiddenGem(df[i], median)
        gem_rows == SelectSeq([i \in 1..Len(df) |-> i], IsGem)
        gems == NLargest([i \in 1..Len(gem_rows) |-> spend[gem_rows[i]]], 10)
    IN  IF Len(repeat) < MinRepeatCustomers
        THEN [called |-> TRUE, raised |-> "none", success |-> FALSE,
              message |-> "Need at least 10 repeat customers for CLV analysis"]
        ELSE [called |-> TRUE, raised |-> "none", success |-> TRUE,
              repeat_customers |->
                  [i \in 1..Len(repeat) |->
                     [client_name |-> repeat[i].client_name,
                      frequency |-> repeat[i].frequency,
                      avg_spend |-> repeat[i].avg_spend,
                      clv |-> clv[i]]],
              avg_clv |-> RatDiv(RatSum(clv), Int2Rat(Len(repeat))),
              total_clv |-> RatSum(clv),
              top_10_pct_clv |->
                  RatDiv(RatSum([i \in 1..Len(top) |-> clv[top[i]]]),
                         Int2Rat(Len(top))),
              hidden_gems |->
                  [i \in 1..Len(gems) |->
                     [client_name |-> df[gem_rows[gems[i]]].client_name,
                      frequency |-> df[gem_rows[gems[i]]].frequency,
                      avg_spend |-> spend[gem_rows[gems[i]]],
                      projected_clv_if_regular |->
                          RatMul(spend[gem_rows[gems[i]]], Int2Rat(12))]],
              n_repeat |-> Len(repeat)]

----------------------------------------------------------------------------
(* utils/models.py: the churn scorer *)

\* Series.max(): the largest present value, NaN for none
ColumnMax(df, col) ==
    LET present == {Val(df[i][col]) : i \in {j \in 1..Len(df) : IsSome(df[j][col])}}
    IN  IF present = {} THEN NaN ELSE Int2Rat(SetMax(present))

\* Series.clip(0, 1): NaN stays NaN
Clip01(p) ==
    IF IsNaN(p) THEN NaN
    ELSE IF RatLt(p, Int2Rat(0)) THEN Int2Rat(0)
    ELSE IF RatLt(Int2Rat(1), p) THEN Int2Rat(1)
    ELSE p

\* a high level that starts above 0.7
risk_level_mut_strict(p) ==
    IF RatLt(Rat(7, 10), p) THEN "high"
    ELSE IF RatLe(Rat(4, 10), p) THEN "medium"
    ELSE "low"

risk_level(p) ==
    IF RatLe(Rat(7, 10), p) THEN "high"
    ELSE IF RatLe(Rat(4, 10), p) THEN "medium"
    ELSE "low"

\* the division by a fixed horizon of 3 days in place of max_days
recency_score_mut_fixed(row, max_days) ==
    IF RatLt(Int2Rat(0), max_days)
    THEN IF row.days_since_visit = None THEN NaN
         ELSE RatDiv(Int2Rat(Val(row.days_since_visit)), Int2Rat(3))
    ELSE Int2Rat(0)

\* the division without the max_days > 0 guard
recency_score_mut_unguarded(row, max_days) ==
    IF row.days_since_visit = None THEN NaN
    ELSE RatDiv(Int2Rat(Val(row.days_since_visit)), max_days)

\* days_since_visit / max_days if max_days > 0 else 0
recency_score(row, max_days) ==
    IF RatLt(Int2Rat(0), max_days)
    THEN IF row.days_since_visit = None THEN NaN
         ELSE RatDiv(Int2Rat(Val(row.days_since_visit)), max_days)
    ELSE Int2Rat(0)

\* the share of the largest frequency, not its complement
frequency_score_mut_share(row, max_freq) ==
    IF RatLt(Int2Rat(0), max_freq)
    THEN RatDiv(Int2Rat(row.frequency), max_freq)
    ELSE Int2Rat(0)

\* 1 - frequency / max_freq if max_freq > 0 else 0
frequency_score(row, max_freq) ==
    IF RatLt(Int2Rat(0), max_freq)
    THEN RatAdd(Int2Rat(1),
                RatMul(Int2Rat(-1),
                       RatDiv(Int2Rat(row.frequency), max_freq)))
    ELSE Int2Rat(0)

calculate_churn_probability(df) ==
    LET max_days == ColumnMax(df, "days_since_visit")
        max_freq == ColumnMax([i \in 1..Len(df) |->
                                  [frequency |-> Some(df[i].frequency)]],
                              "frequency")
        p_churn(row) ==
            Clip01(RatAdd(RatMul(recency_score(row, max_days), Rat(7, 10)),
                          RatMul(frequency_score(row, max_freq), Rat(3, 10))))
    IN  [i \in 1..Len(df) |->
           [client_name |-> df[i].client_name,
            frequency |-> df[i].frequency,
            total_spend |-> df[i].total_spend,
            days_since_visit |-> df[i].days_since_visit,
            recency_score |-> recency_score(df[i], max_days),
            frequency_score |-> frequency_score(df[i], max_freq),
            p_churn |-> p_churn(df[i]),
            risk_level |-> risk_level(p_churn(df[i]))]]

IsHigh(row) == row.risk_level = "high"
IsMedium(row) == row.risk_level = "medium"
IsLow(row) == row.risk_level = "low"

\* get_churn_summary without the len(df) > 0 guard of still_active_pct
get_churn_summary_mut_unguarded(customer_table) ==
    LET df == calculate_churn_probability(customer_table)
        high_risk == SelectSeq(df, IsHigh)
    IN  IF Len(df) = 0
        THEN [called |-> TRUE, raised |-> "ZeroDivisionError"]
        ELSE [called |-> TRUE, raised |-> "none",
              customer_df |-> df,
              high_risk_count |-> Len(high_risk),
              medium_risk_count |-> Len(SelectSeq(df, IsMedium)),
              low_risk_count |-> Len(SelectSeq(df, IsLow)),
              revenue_at_risk |->
                  RatMul(Int2Rat(SumSeq(Column(high_risk, "total_spend"))),
                         Rat(8, 10)),
              still_active_pct |-> Rat(Len(SelectSeq(df, IsLow)), Len(df)),
              high_risk_customers |-> high_risk]

get_churn_summary(customer_table) ==
    LET df == calculate_churn_probability(customer_table)
        high_risk == SelectSeq(df, IsHigh)
        medium_risk == SelectSeq(df, IsMedium)
        low_risk == SelectSeq(df, IsLow)
    IN  [called |-> TRUE, raised |-> "none",
         customer_df |-> df,
         high_risk_count |-> Len(high_risk),
         medium_risk_count |-> Len(medium_risk),
         low_risk_count |-> Len(low_risk),
         revenue_at_risk |->
             RatMul(Int2Rat(SumSeq(Column(high_risk, "total_spend"))),
                    Rat(8, 10)),
         still_active_pct |->
             IF Len(df) > 0 THEN Rat(Len(low_risk), Len(df)) ELSE Int2Rat(0),
         high_risk_customers |-> high_risk]

FitGammaGamma ==
    /\ ~clv_results.called
    /\ clv_results' = fit_gamma_gamma(customer_df)
    /\ UNCHANGED <<rescaled_results, nbd_results>>
    /\ UNCHANGED <<session, pc, churn_page, wizard_data>>
    /\ UNCHANGED <<uploaded_file, raw_data, agg_call, customer_df, segmented,
                   segment_summary, churn_results>>

GetChurnSummary ==
    /\ ~churn_results.called
    /\ churn_results' = get_churn_summary(customer_df)
    /\ UNCHANGED <<rescaled_results, nbd_results>>
    /\ UNCHANGED <<session, pc, churn_page, wizard_data>>
    /\ UNCHANGED <<uploaded_file, raw_data, agg_call, customer_df, segmented,
                   segment_summary, clv_results>>

----------------------------------------------------------------------------
(* Uploaded files and aggregation calls *)

AllColumns ==
    {"client_name", "start", "status", "service", "estimated_total_price"}

ColumnSets == {AllColumns} \cup {AllColumns \ {c} : c \in AllColumns}

Days == {1, 2}

\* the instants of the transactions: midnight of a day and one tick later
Instants == {to_datetime(d) + o : d \in Days, o \in {0, 1}}

StartCells ==
    [format : {DateFormat}, ticks : Instants]
      \cup {[format |-> "%Y-%m-%d %H:%M:%S", ticks |-> to_datetime(1)]}

\* the cells of a column the file lacks are absent
Cells(columns, col, values) == IF col \in columns THEN values ELSE {None}

\* the files of the model carry an estimated price of 20 on the rows of the
\* first customer and an empty price cell on every other row
PriceCell(columns, name) ==
    IF "estimated_total_price" \in columns /\ name = Names[1]
    THEN Some(20) ELSE None

CsvRows(columns) ==
    {[client_name |-> name, start |-> start, status |-> status,
      service |-> None,
      estimated_total_price |-> PriceCell(columns, name)] :
        name \in Cells(columns, "client_name", {Names[k] : k \in DOMAIN Names}),
        start \in Cells(columns, "start", StartCells),
        status \in Cells(columns, "status", {"accepted", "cancelled"})}

SeqsUpTo(S, n) == UNION {[1..k -> S] : k \in 0..n}

UploadedFiles ==
    UNION {[columns : {cols}, rows : SeqsUpTo(CsvRows(cols), MaxRows)] :
           cols \in ColumnSets}

DateArgs == {None} \cup {Some(d) : d \in Days}

\* the values pd.Timestamp.now() takes: midnight of day 2, and later
NowTimes == {to_datetime(2), to_datetime(3) + 1}

NoFile == [columns |-> {}, rows |-> << >>]

InitAgg ==
    /\ uploaded_file \in UploadedFiles
    /\ raw_data = NotCalled
    /\ agg_call = NotCalled
    /\ customer_df = << >>
    /\ segmented = NotCalled
    /\ segment_summary = NotCalled
    /\ clv_results = NotCalled
    /\ churn_results = NotCalled
    /\ rescaled_results = NotCalled
    /\ nbd_results = NotCalled
    /\ session = init_session_state
    /\ pc = "idle"
    /\ churn_page = NotCalled
    /\ wizard_data = NotCalled

\* the upload handler reads the file once; the session keeps the result
LoadCsv ==
    /\ ~raw_data.called
    /\ raw_data' = load_and_process_csv(uploaded_file)
    /\ uploaded_file' = NoFile
    /\ UNCHANGED <<rescaled_results, nbd_results>>
    /\ UNCHANGED <<session, pc, churn_page, wizard_data>>
    /\ UNCHANGED <<agg_call, customer_df, segmented, segment_summary,
                   clv_results, churn_results>>

Aggregate ==
    /\ raw_data.called
    /\ raw_data.error = "none"
    /\ \E start_date \in DateArgs, end_date \in DateArgs, today \in NowTimes :
          /\ customer_df' = aggregate_to_customers(raw_data.df, start_date,
                                                   end_date, today)
          /\ agg_call' = [called |-> TRUE, start_date |-> start_date,
                          end_date |-> end_date, today |-> today]
          /\ raw_data' = [raw_data EXCEPT
                            !.df = CallerFrame(@, start_date, end_date)]
    /\ segmented' = NotCalled
    /\ segment_summary' = NotCalled
    /\ clv_results' = NotCalled
    /\ churn_results' = NotCalled
    /\ UNCHANGED <<rescaled_results, nbd_results>>
    /\ UNCHANGED <<session, pc, churn_page, wizard_data>>
    /\ UNCHANGED uploaded_file

NextAgg ==
    \/ LoadCsv
    \/ Aggregate
    \/ (agg_call.called /\ FitGammaGamma)
    \/ (agg_call.called /\ GetChurnSummary)

SpecAgg == InitAgg /\ [][NextAgg]_vars

----------------------------------------------------------------------------
(* Customer tables handed directly to the value model *)

\* the customers a table is made of: frequency and total spend
CustomerKinds ==
    << [frequency |-> 1, total_spend |-> 100],
       [frequency |-> 2, total_spend |-> 100],
       [frequency |-> 3, total_spend |-> 160],
       [frequency |-> 6, total_spend |-> 180] >>

KindCount(df, k) ==
    Cardinality({i \in 1..Len(df) :
                   /\ df[i].frequency = CustomerKinds[k].frequency
                   /\ df[i].total_spend = CustomerKinds[k].total_spend})

\* the table with counts[k] customers of kind k, named 1, 2, ... in row order
RECURSIVE KindTable(_, _, _)
KindTable(counts, k, named) ==
    IF k > Len(CustomerKinds) THEN << >>
    ELSE [i \in 1..counts[k] |->
            Customer(named + i, CustomerKinds[k].frequency,
                     CustomerKinds[k].total_spend,
                     Rat(CustomerKinds[k].total_spend, CustomerKinds[k].frequency),
                     Some(0))]
         \o KindTable(counts, k + 1, named + counts[k])

InitClv ==
    /\ customer_df = << >>
    /\ Idle

AddCustomer ==
    /\ Len(customer_df) < MaxCustomers
    /\ \E k \in DOMAIN CustomerKinds :
          customer_df' =
              KindTable([j \in DOMAIN CustomerKinds |->
                           KindCount(customer_df, j) + (IF j = k THEN 1 ELSE 0)],
                        1, 0)
    /\ clv_results' = NotCalled
    /\ UNCHANGED <<rescaled_results, nbd_results>>
    /\ UNCHANGED <<session, pc, churn_page, wizard_data>>
    /\ UNCHANGED <<uploaded_file, raw_data, agg_call, segmented,
                   segment_summary, churn_results>>

NextClv == AddCustomer \/ FitGammaGamma

SpecClv == InitClv /\ [][NextClv]_vars

----------------------------------------------------------------------------
(* utils/models.py: the frequency model *)

\* the bounds minimize() keeps r and alpha in
OptimizerBounds == [lo |-> Rat(1, 100), hi |-> Int2Rat(100)]

\* the largest shape r whose power is computed exactly
MaxExactShape == 2

\* a shape outside the bounds: r = 0 among the fitted values
ShapeGrid_mut_zero ==
    {Int2Rat(0), OptimizerBounds.lo, OptimizerBounds.hi}
      \cup {Int2Rat(k) : k \in 1..MaxExactShape}

\* the values of r the optimizer may return: both bounds and the small
\* integers between them
ShapeGrid ==
    {OptimizerBounds.lo, OptimizerBounds.hi}
      \cup {Int2Rat(k) : k \in 1..MaxExactShape}

\* the values of alpha the optimizer may return
RateGrid == {OptimizerBounds.lo, Int2Rat(1), OptimizerBounds.hi}

RECURSIVE RatPow(_, _)
RatPow(q, n) == IF n = 0 THEN Int2Rat(1) ELSE RatMul(q, RatPow(q, n - 1))

\* (alpha / (alpha + 1)) ** r with q = alpha / (alpha + 1) < 1: the power
\* itself for a small integer r, else the two ends of an interval that holds
\* it: q <= q^r <= 1 - r (1 - q) for 0 < r < 1, and 0 < q^r <= q^m for r >= m
PZero(r, alpha) ==
    LET q == RatDiv(alpha, RatAdd(alpha, Int2Rat(1)))
    IN  IF r.den = 1 /\ r.num <= MaxExactShape THEN {RatPow(q, r.num)}
        ELSE IF RatLt(r, Int2Rat(1))
             THEN {q, RatAdd(Int2Rat(1),
                             RatMul(RatMul(Int2Rat(-1), r),
                                    RatAdd(Int2Rat(1), RatMul(Int2Rat(-1), q))))}
        ELSE {Int2Rat(0), RatPow(q, MaxExactShape)}

\* the chi-square statistics of a fit: not negative, or not finite when a
\* predicted count is 0
ChiSquares == {Int2Rat(k) : k \in {0, 1, 2, 3, 4, 6, 8}} \cup {NaN}

Heterogeneity(r) ==
    IF RatLt(r, Rat(1, 2)) THEN "high"
    ELSE IF RatLt(r, Rat(3, 2)) THEN "moderate"
    ELSE "low"

\* the bands of chi_sq / df without the max(df, 1) guard
FitQuality_mut_unguarded(chi_sq, df) ==
    IF RatLt(RatDiv(chi_sq, Int2Rat(df)), Int2Rat(2)) THEN "good"
    ELSE IF RatLt(RatDiv(chi_sq, Int2Rat(df)), Int2Rat(4)) THEN "moderate"
    ELSE "poor"

FitQuality(chi_sq, df) ==
    LET per == RatDiv(chi_sq, Int2Rat(IF df > 1 THEN df ELSE 1))
    IN  IF RatLt(per, Int2Rat(2)) THEN "good"
        ELSE IF RatLt(per, Int2Rat(4)) THEN "moderate"
        ELSE "poor"

\* fit_zt_nbd for the (r, alpha) the optimizer returned, the value p_zero of
\* the power and the chi-square statistic chi_sq of the fitted histogram
fit_zt_nbd(customer_table, r, alpha, p_zero, chi_sq) ==
    LET freq_counts == {customer_table[i].frequency :
                           i \in 1..Len(customer_table)}
        n_observed == Len(customer_table)
        f0 == RatDiv(RatMul(Int2Rat(n_observed), p_zero),
                     RatAdd(Int2Rat(1), RatMul(Int2Rat(-1), p_zero)))
        total_market == RatAdd(Int2Rat(n_observed), f0)
        df == Cardinality(freq_counts) - 2
    IN  [called |-> TRUE,
         r |-> r,
         alpha |-> alpha,
         f0 |-> f0,
         n_observed |-> n_observed,
         total_market |-> total_market,
         market_reached |-> RatDiv(Int2Rat(n_observed), total_market),
         chi_square |-> chi_sq,
         df |-> df,
         heterogeneity |-> Heterogeneity(r),
         fit_quality |-> FitQuality(chi_sq, df)]

\* customers of a table handed directly to the frequency model
MaxFitted == 3

FitTables ==
    UNION {{[i \in 1..n |->
               Customer(i, freq[i], 85 * freq[i], Int2Rat(85), Some(0))] :
              freq \in [1..n -> 1..3]} : n \in 1..MaxFitted}

InitFit ==
    /\ customer_df \in FitTables
    /\ Idle

FitZtNbd ==
    /\ ~nbd_results.called
    /\ \E r \in ShapeGrid, alpha \in RateGrid, chi_sq \in ChiSquares :
          \E p_zero \in PZero(r, alpha) :
              nbd_results' = fit_zt_nbd(customer_df, r, alpha, p_zero, chi_sq)
    /\ UNCHANGED <<uploaded_file, raw_data, agg_call, customer_df, segmented,
                   segment_summary, clv_results, churn_results,
                   rescaled_results>>
    /\ UNCHANGED <<session, pc, churn_page, wizard_data>>

NextFit == FitZtNbd

SpecFit == InitFit /\ [][NextFit]_vars

----------------------------------------------------------------------------
(* Customer tables handed directly to the churn scorer *)

\* customers of a table handed directly to the churn scorer
MaxScored == 3

\* frequency and days_since_visit of the customers: last visit dated after
\* now, today, two and three days ago, and a customer with no dated visit
ChurnKinds ==
    [frequency : {1, 2}, days_since_visit : {Some(-1), Some(0), Some(2), Some(3)}]
      \cup {[frequency |-> 0, days_since_visit |-> None]}

ChurnTables ==
    UNION {{[i \in 1..n |->
               Customer(i, kinds[i].frequency, 85 * kinds[i].frequency,
                        Int2Rat(85), kinds[i].days_since_visit)] :
              kinds \in [1..n -> ChurnKinds]} : n \in 1..MaxScored}

\* the factors all days_since_visit are multiplied by
ScaleFactors == {2, 3}

\* the table with every days_since_visit multiplied by k
Rescale(df, k) ==
    [i \in 1..Len(df) |->
        [df[i] EXCEPT !.days_since_visit =
            IF @ = None THEN None ELSE Some(k * Val(@))]]

InitChurn ==
    /\ customer_df \in ChurnTables
    /\ Idle

ScoreRescaled ==
    /\ ~rescaled_results.called
    /\ \E k \in ScaleFactors :
          rescaled_results' =
              [called |-> TRUE, k |-> k,
               customer_df |->
                   calculate_churn_probability(Rescale(customer_df, k))]
    /\ UNCHANGED <<uploaded_file, raw_data, agg_call, customer_df, segmented,
                   segment_summary, clv_results, churn_results, nbd_results>>
    /\ UNCHANGED <<session, pc, churn_page, wizard_data>>

NextChurn == GetChurnSummary \/ ScoreRescaled

SpecChurn == InitChurn /\ [][NextChurn]_vars

----------------------------------------------------------------------------
(* utils/wizard.py: the second ingestion path *)

\* the status cells of the files of the two ingestion paths
StatusValues ==
    {"accepted", "Completed", "pending", "no-show", "cancelled",
     "Cancelled by client"}

\* str.lower() on the status cells
Lower(status) ==
    CASE status = "Completed" -> "completed"
      [] status = "Cancelled by client" -> "cancelled by client"
      [] OTHER -> status

negative_statuses ==
    {"cancelled", "canceled", "refunded", "void", "failed", "declined"}

\* ns in x for the lower-case status cells
Contains(x, ns) ==
    <<x, ns>> \in {<<"cancelled", "cancelled">>,
                   <<"cancelled by client", "cancelled">>}

\* process_and_finalize on a table whose columns carry the names of the
\* application: the rows whose lower-case status holds no negative word, the
\* start parsed in any format, the rows with no start dropped
process_and_finalize(df) ==
    LET Positive(row) ==
            ~\E ns \in negative_statuses : Contains(Lower(row.status), ns)
        kept == IF "status" \in df.columns THEN SelectSeq(df.rows, Positive)
                ELSE df.rows
        parsed == [i \in 1..Len(kept) |->
                     [client_name |-> kept[i].client_name,
                      start |-> IF kept[i].start = None THEN None
                                ELSE Some(kept[i].start.ticks),
                      status |-> kept[i].status]]
        Dated(row) == IsSome(row.start)
    IN  [called |-> TRUE,
         df |-> IF "start" \in df.columns THEN SelectSeq(parsed, Dated)
                ELSE parsed]

\* rows of a file handed to both ingestion paths
MaxIngested == 2

IngestedFiles ==
    [columns : {AllColumns},
     rows : SeqsUpTo({[client_name |-> name,
                       start |-> [format |-> DateFormat, ticks |-> to_datetime(1)],
                       status |-> status, service |-> None,
                       estimated_total_price |-> None] :
                         name \in {Names[k] : k \in DOMAIN Names},
                         status \in StatusValues},
                     MaxIngested)]

InitIngest ==
    /\ uploaded_file \in IngestedFiles
    /\ customer_df = << >>
    /\ raw_data = NotCalled
    /\ agg_call = NotCalled
    /\ segmented = NotCalled
    /\ segment_summary = NotCalled
    /\ clv_results = NotCalled
    /\ churn_results = NotCalled
    /\ rescaled_results = NotCalled
    /\ nbd_results = NotCalled
    /\ session = init_session_state
    /\ pc = "idle"
    /\ churn_page = NotCalled
    /\ wizard_data = NotCalled

LoadPath ==
    /\ ~raw_data.called
    /\ raw_data' = load_and_process_csv(uploaded_file)
    /\ UNCHANGED <<uploaded_file, agg_call, customer_df, segmented,
                   segment_summary, clv_results, churn_results,
                   rescaled_results, nbd_results, session, pc, churn_page,
                   wizard_data>>

WizardPath ==
    /\ ~wizard_data.called
    /\ wizard_data' = process_and_finalize(uploaded_file)
    /\ UNCHANGED <<uploaded_file, raw_data, agg_call, customer_df, segmented,
                   segment_summary, clv_results, churn_results,
                   rescaled_results, nbd_results, session, pc, churn_page>>

NextIngest == LoadPath \/ WizardPath

SpecIngest == InitIngest /\ [][NextIngest]_vars

----------------------------------------------------------------------------
(* app.py and pages/0: the session and the views that write it *)

\* a login that takes empty fields too
render_login_mut_unchecked(state, email, business_name) ==
    [state EXCEPT !.email = Some(email),
                  !.business_name = Some(business_name),
                  !.logged_in = TRUE,
                  !.current_view = "upload"]

\* the login form submitted: both fields are needed
render_login(state, email, business_name) ==
    IF email # "" /\ business_name # ""
    THEN [state EXCEPT !.email = Some(email),
                       !.business_name = Some(business_name),
                       !.logged_in = TRUE,
                       !.current_view = "upload"]
    ELSE state

\* raw_df["start"].min() is NaT, and its strftime raises: no row, or no
\* row with a start
NoDatedRow(df) == \A i \in 1..Len(df) : df[i].start = None

\* the session after the upload view ran with a file in the uploader:
\* an exception of the try block is caught and shown
render_upload(state, file, clicked, today) ==
    LET loaded == load_and_process_csv(file)
        stored == [state EXCEPT !.raw_data = Some(loaded.df)]
    IN  IF loaded.error # "none" THEN state
        ELSE IF NoDatedRow(loaded.df) THEN stored
        ELSE IF clicked
        THEN [stored EXCEPT
                !.customer_data =
                    Some(assign_segments(
                        aggregate_to_customers(loaded.df, None, None, today))),
                !.data_loaded = TRUE,
                !.current_view = "dashboard"]
        ELSE stored

\* the Back button of the upload view
back(state) ==
    [state EXCEPT !.logged_in = FALSE, !.current_view = "login"]

\* the Logout button of the dashboard
logout(state) ==
    [state EXCEPT !.logged_in = FALSE, !.data_loaded = FALSE,
                  !.current_view = "login"]

\* the session after the Upload page ran with a file in its uploader
upload_page(state, file, clicked, today) ==
    LET loaded == load_and_process_csv(file)
        stored == [state EXCEPT !.raw_data = Some(loaded.df)]
    IN  IF file = NoFile \/ loaded.error # "none" THEN state
        ELSE IF NoDatedRow(loaded.df) THEN stored
        ELSE IF clicked
        THEN [stored EXCEPT
                !.customer_data =
                    Some(assign_segments(
                        aggregate_to_customers(loaded.df, None, None, today))),
                !.data_loaded = TRUE]
        ELSE stored

\* the button "Upload new data" of the Upload page
upload_new_data(state) ==
    [state EXCEPT !.data_loaded = FALSE, !.raw_data = None,
                  !.customer_data = None]

\* the fields typed into the login form
Emails == {"", "you@business.com"}
BusinessNames == {"", "Acme Coffee Shop"}

CsvRow(name, start, status) ==
    [client_name |-> name, start |-> start, status |-> status,
     service |-> None, estimated_total_price |-> None]

\* a file without the column col: its cells are absent
Without(file, col) ==
    [columns |-> file.columns \ {col},
     rows |-> [i \in 1..Len(file.rows) |-> [file.rows[i] EXCEPT ![col] = None]]]

\* the files put into an uploader: with dated accepted rows, with an
\* accepted row whose start is in another format, with no accepted row, and
\* files that lack one column
SessionFiles ==
    LET dated(d) == [format |-> DateFormat, ticks |-> to_datetime(d)]
        one == [columns |-> AllColumns,
                rows |-> <<CsvRow("ana", dated(1), "accepted")>>]
        two == [columns |-> AllColumns,
                rows |-> <<CsvRow("ana", dated(1), "accepted"),
                           CsvRow("ben", dated(2), "accepted")>>]
    IN  {one, two,
         [columns |-> AllColumns,
          rows |-> <<CsvRow("ana", [format |-> "%Y-%m-%d %H:%M:%S",
                                    ticks |-> to_datetime(1)], "accepted")>>],
         [columns |-> AllColumns,
          rows |-> <<CsvRow("ana", dated(1), "cancelled")>>]}
          \cup {Without(two, col) :
                  col \in {"client_name", "start", "status", "service"}}

\* the button of an upload view is drawn when the try block got that far
ButtonDrawn(file) ==
    /\ load_and_process_csv(file).error = "none"
    /\ ~NoDatedRow(load_and_process_csv(file).df)

InitSession ==
    /\ customer_df = << >>
    /\ Idle

\* what a step of the session leaves alone
SessionFrame ==
    UNCHANGED <<agg_call, customer_df, segmented, segment_summary,
                clv_results, churn_results, rescaled_results, nbd_results,
                pc, churn_page, wizard_data>>

LoginSubmit ==
    /\ session.current_view = "login"
    /\ \E email \in Emails, business_name \in BusinessNames :
          session' = render_login(session, email, business_name)
    /\ uploaded_file' = NoFile
    /\ UNCHANGED raw_data
    /\ SessionFrame

\* a file put into the uploader of the upload view
ChooseFile ==
    /\ session.current_view = "upload"
    /\ \E file \in SessionFiles, today \in NowTimes :
          /\ session' = render_upload(session, file, FALSE, today)
          /\ uploaded_file' = file
          /\ raw_data' = load_and_process_csv(file)
    /\ SessionFrame

CalculateHealthScore ==
    /\ session.current_view = "upload"
    /\ \E file \in SessionFiles, today \in NowTimes :
          /\ ButtonDrawn(file)
          /\ session' = render_upload(session, file, TRUE, today)
          /\ uploaded_file' = file
          /\ raw_data' = load_and_process_csv(file)
    /\ SessionFrame

Back ==
    /\ session.current_view = "upload"
    /\ session' = back(session)
    /\ uploaded_file' = NoFile
    /\ UNCHANGED raw_data
    /\ SessionFrame

Logout ==
    /\ session.current_view = "dashboard"
    /\ session' = logout(session)
    /\ uploaded_file' = NoFile
    /\ UNCHANGED raw_data
    /\ SessionFrame

\* a file put into the uploader of the Upload page
PageChooseFile ==
    /\ session.logged_in
    /\ \E file \in SessionFiles, today \in NowTimes :
          /\ session' = upload_page(session, file, FALSE, today)
          /\ uploaded_file' = file
          /\ raw_data' = load_and_process_csv(file)
    /\ SessionFrame

GenerateInsights ==
    /\ session.logged_in
    /\ \E file \in SessionFiles, today \in NowTimes :
          /\ ButtonDrawn(file)
          /\ session' = upload_page(session, file, TRUE, today)
          /\ uploaded_file' = file
          /\ raw_data' = load_and_process_csv(file)
    /\ SessionFrame

\* the click resets the session and st.rerun() runs the page again, with
\* the file its uploader holds, if any
UploadNewData ==
    /\ session.logged_in
    /\ session.data_loaded
    /\ \E file \in SessionFiles \cup {NoFile}, today \in NowTimes :
          session' = upload_page(upload_new_data(session), file, FALSE, today)
    /\ uploaded_file' = NoFile
    /\ UNCHANGED raw_data
    /\ SessionFrame

NextSession ==
    \/ LoginSubmit
    \/ ChooseFile
    \/ CalculateHealthScore
    \/ Back
    \/ Logout
    \/ PageChooseFile
    \/ GenerateInsights
    \/ UploadNewData

SpecSession == InitSession /\ [][NextSession]_vars

----------------------------------------------------------------------------
(* app.py: one script run of the dashboard; pages/6: the Churn page *)

\* the position after the CLV tab if a failed fit stopped the script run
AfterClvTab_mut_stop(clv) ==
    IF clv.success THEN "churn_tab" ELSE "stopped"

\* render_clv_tab returns early on a failed fit, and after the whole tab
\* otherwise; render_dashboard goes on with the Churn tab
AfterClvTab(clv) == "churn_tab"

\* the high-risk rows with the column clv: the fitted clv of the customer,
\* total_spend for a customer without one, sorted by clv, largest first (rows
\* of equal clv in row order); total_spend for all when the fit failed
HighRiskWithClv(rows, clv) ==
    LET Fitted(name) ==
            {i \in 1..Len(clv.repeat_customers) :
                clv.repeat_customers[i].client_name = name}
        Value(row) ==
            IF clv.success /\ Fitted(row.client_name) # {}
            THEN clv.repeat_customers[CHOOSE i \in Fitted(row.client_name) : TRUE].clv
            ELSE Int2Rat(row.total_spend)
        valued == [i \in 1..Len(rows) |->
                     [client_name |-> rows[i].client_name,
                      total_spend |-> rows[i].total_spend,
                      p_churn |-> rows[i].p_churn,
                      clv |-> Value(rows[i])]]
        order == NLargest(Column(valued, "clv"), Len(valued))
    IN  IF clv.success THEN [i \in 1..Len(valued) |-> valued[order[i]]]
        ELSE valued

\* a table the value model succeeds on: ten repeat customers, two of them
\* last seen three days ago
RepeatTable ==
    [i \in 1..MinRepeatCustomers |->
        Customer(i, IF i = 1 THEN 3 ELSE 2, 100,
                 Rat(100, IF i = 1 THEN 3 ELSE 2),
                 IF i <= 2 THEN Some(3) ELSE Some(0))]

RenderTables == ChurnTables \cup {RepeatTable}

InitRender ==
    /\ customer_df \in RenderTables
    /\ Idle

\* render_dashboard up to the tabs
RenderDashboard ==
    /\ pc = "idle"
    /\ pc' = "clv_tab"
    /\ UNCHANGED <<uploaded_file, raw_data, agg_call, customer_df, segmented,
                   segment_summary, clv_results, churn_results,
                   rescaled_results, nbd_results, session, churn_page,
                   wizard_data>>

RenderClvTab ==
    /\ pc = "clv_tab"
    /\ clv_results' = fit_gamma_gamma(customer_df)
    /\ pc' = AfterClvTab(fit_gamma_gamma(customer_df))
    /\ UNCHANGED <<uploaded_file, raw_data, agg_call, customer_df, segmented,
                   segment_summary, churn_results, rescaled_results,
                   nbd_results, session, churn_page, wizard_data>>

RenderChurnTab ==
    /\ pc = "churn_tab"
    /\ churn_results' = get_churn_summary(customer_df)
    /\ pc' = "done"
    /\ UNCHANGED <<uploaded_file, raw_data, agg_call, customer_df, segmented,
                   segment_summary, clv_results, rescaled_results,
                   nbd_results, session, churn_page, wizard_data>>

\* the Churn page: its own script run
RenderChurnPage ==
    /\ ~churn_page.called
    /\ LET clv == fit_gamma_gamma(customer_df)
           churn == get_churn_summary(customer_df)
       IN  churn_page' =
               [called |-> TRUE, success |-> clv.success,
                high_risk |-> HighRiskWithClv(churn.high_risk_customers, clv)]
    /\ UNCHANGED <<uploaded_file, raw_data, agg_call, customer_df, segmented,
                   segment_summary, clv_results, churn_results,
                   rescaled_results, nbd_results, session, pc, wizard_data>>

NextRender ==
    \/ RenderDashboard
    \/ RenderClvTab
    \/ RenderChurnTab
    \/ RenderChurnPage

Positions == {"idle", "clv_tab", "churn_tab", "done", "stopped"}

\* the script run leaves the tab it is in
Advance ==
    /\ pc \in {"clv_tab", "churn_tab"}
    /\ pc' \in Positions
    /\ pc' # pc

\* a script run goes on to its end: Streamlit runs it synchronously
SpecRender ==
    /\ InitRender
    /\ [][NextRender]_vars
    /\ WF_pc(Advance)

----------------------------------------------------------------------------
(* Claims *)

(* C1: every frequency >= 1 gets Explorer for 1..2, Casual for 3..8,
   Regular for 9..12 and Superuser for every frequency >= 13 *)
C1_TiersCoverPositiveIntegers ==
    segmented.called =>
        \A i \in 1..Len(segmented.df) :
            LET f == segmented.df[i].frequency
                s == segmented.df[i].segment
            IN  f >= 1 =>
                  /\ (f <= 2) => s = "Explorer"
                  /\ (3 <= f /\ f <= 8) => s = "Casual"
                  /\ (9 <= f /\ f <= 12) => s = "Regular"
                  /\ (13 <= f) => s = "Superuser"

(* C2: the tier never drops as the frequency grows: for two customers with
   1 <= f1 <= f2 the tier of f1 is not above the tier of f2 *)
C2_SegmentMonotonicInFrequency ==
    segmented.called =>
        \A i, j \in 1..Len(segmented.df) :
            (/\ 1 <= segmented.df[i].frequency
             /\ segmented.df[i].frequency <= segmented.df[j].frequency)
              => segment_order[segmented.df[i].segment]
                   <= segment_order[segmented.df[j].segment]

SegmentCount(df, s) == Cardinality({i \in 1..Len(df) : df[i].segment = s})

(* C3 as stated: the twelve-customer scenario yields Explorer=5, Casual=4,
   Regular=2, Superuser=1, and the four counts sum to 12 *)
C3_ScenarioCountsAsStated ==
    (/\ segmented.called
     /\ Column(customer_df, "frequency") = ScenarioFrequencies)
      => /\ SegmentCount(segmented.df, "Explorer") = 5
         /\ SegmentCount(segmented.df, "Casual") = 4
         /\ SegmentCount(segmented.df, "Regular") = 2
         /\ SegmentCount(segmented.df, "Superuser") = 1
         /\ Len(segmented.df) = 12

(* C3 amended: the twelve-customer scenario yields Explorer=5, Casual=3,
   Regular=2, Superuser=2 (13 and 15 are both Superusers), and the counts of
   the segment summary sum to 12 *)
C3_ScenarioSegmentCounts ==
    (/\ segmented.called
     /\ Column(customer_df, "frequency") = ScenarioFrequencies)
      => /\ SegmentCount(segmented.df, "Explorer") = 5
         /\ SegmentCount(segmented.df, "Casual") = 3
         /\ SegmentCount(segmented.df, "Regular") = 2
         /\ SegmentCount(segmented.df, "Superuser") = 2
         /\ Len(segmented.df) = 12
         /\ (segment_summary.called =>
               /\ Column(segment_summary.df, "customer_count") = <<5, 3, 2, 2>>
               /\ SumSeq(Column(segment_summary.df, "customer_count")) = 12)

C3_Witness ==
    /\ segmented.called
    /\ segment_summary.called
    /\ Column(customer_df, "frequency") = ScenarioFrequencies

InNoRange(f) ==
    \A k \in DOMAIN SEGMENT_DEFINITIONS :
        ~(SEGMENT_DEFINITIONS[k].min <= f /\ f <= SEGMENT_DEFINITIONS[k].max)

(* C4: a frequency that none of the four ranges holds (0, a negative one)
   gets Explorer, and every label is one of the four tiers *)
C4_FallbackIsExplorer ==
    segmented.called =>
        \A i \in 1..Len(segmented.df) :
            /\ segmented.df[i].segment \in SegmentNames
            /\ (InNoRange(segmented.df[i].frequency) \/ segmented.df[i].frequency < 1)
                 => segmented.df[i].segment = "Explorer"

C4_Witness ==
    /\ segmented.called
    /\ \E i \in 1..Len(segmented.df) :
          /\ segmented.df[i].frequency < 1
          /\ segmented.df[i].segment = "Explorer"

\* the transaction is inside the window of the last aggregation call
Included(row) ==
    /\ agg_call.start_date # None =>
          /\ IsSome(row.start)
          /\ Val(row.start) >= Val(agg_call.start_date) * TicksPerDay
    /\ agg_call.end_date # None =>
          /\ IsSome(row.start)
          /\ Val(row.start) <= Val(agg_call.end_date) * TicksPerDay

IncludedRows(name) ==
    {i \in 1..Len(raw_data.df) :
        raw_data.df[i].client_name = name /\ Included(raw_data.df[i])}

NameSet == {Names[k] : k \in DOMAIN Names}

(* C5: the aggregate has exactly one row for every customer with at least one
   transaction inside the window (every transaction when there is no
   window) and no row for any other customer *)
C5_OneRowPerIncludedCustomer ==
    agg_call.called =>
        /\ \A i \in 1..Len(customer_df) : customer_df[i].client_name \in NameSet
        /\ \A name \in NameSet :
              Cardinality({i \in 1..Len(customer_df) :
                             customer_df[i].client_name = name})
                = IF IncludedRows(name) # {} THEN 1 ELSE 0

C5_Witness ==
    /\ agg_call.called
    /\ agg_call.start_date # None
    /\ agg_call.end_date # None
    /\ Len(customer_df) = 1
    /\ IncludedRows(customer_df[1].client_name) # {}
    /\ \E i \in 1..Len(raw_data.df) :
          /\ raw_data.df[i].client_name # customer_df[1].client_name
          /\ IsSome(raw_data.df[i].start)

(* C6: in every row of the aggregate the frequency is the number of the
   customer's transactions inside the window, and it is at least 1 *)
C6_FrequencyCountsIncludedRows ==
    agg_call.called =>
        \A i \in 1..Len(customer_df) :
            /\ customer_df[i].frequency
                 = Cardinality(IncludedRows(customer_df[i].client_name))
            /\ customer_df[i].frequency >= 1

(* C7: in every row of the aggregate days_since_visit is the floor of
   (now - recency) in days, and it is not negative *)
C7_DaysSinceVisitFloorNonNegative ==
    agg_call.called =>
        \A i \in 1..Len(customer_df) :
            /\ IsSome(customer_df[i].days_since_visit)
            /\ IsSome(customer_df[i].recency)
            /\ LET d == Val(customer_df[i].days_since_visit)
                   elapsed == agg_call.today - Val(customer_df[i].recency)
               IN  /\ d * TicksPerDay <= elapsed
                   /\ elapsed < (d + 1) * TicksPerDay
                   /\ d >= 0

NothingIncluded ==
    \A i \in 1..Len(raw_data.df) : ~Included(raw_data.df[i])

(* C8: when the window excludes every transaction the aggregate is empty,
   get_churn_summary returns on it with all counts 0, revenue_at_risk 0 and
   still-active fraction 0, and fit_gamma_gamma returns success false *)
C8_EmptyAggregateHandled ==
    (agg_call.called /\ NothingIncluded) =>
        /\ customer_df = << >>
        /\ churn_results.called =>
              /\ churn_results.raised = "none"
              /\ churn_results.high_risk_count = 0
              /\ churn_results.medium_risk_count = 0
              /\ churn_results.low_risk_count = 0
              /\ RatEq(churn_results.revenue_at_risk, Int2Rat(0))
              /\ RatEq(churn_results.still_active_pct, Int2Rat(0))
        /\ clv_results.called =>
              /\ clv_results.raised = "none"
              /\ clv_results.success = FALSE

C8_Witness ==
    /\ agg_call.called
    /\ raw_data.df # << >>
    /\ \E i \in 1..Len(raw_data.df) : IsSome(raw_data.df[i].start)
    /\ NothingIncluded
    /\ churn_results.called
    /\ clv_results.called

RepeatRows == {i \in 1..Len(customer_df) : customer_df[i].frequency >= 2}

(* C9: fit_gamma_gamma returns the failure {success: false, message}, with
   no CLV statistics and no hidden gems, exactly when fewer than 10 customers
   have frequency >= 2, and it never raises *)
C9_FailureBelowTenRepeatCustomers ==
    clv_results.called =>
        /\ clv_results.raised = "none"
        /\ clv_results.success = (Cardinality(RepeatRows) >= 10)
        /\ ~clv_results.success =>
              DOMAIN clv_results = {"called", "raised", "success", "message"}
        /\ clv_results.success =>
              {"avg_clv", "total_clv", "hidden_gems"} \subseteq DOMAIN clv_results

C9_Witness ==
    /\ clv_results.called
    /\ Cardinality(RepeatRows) = 9
    /\ Len(customer_df) >= 10
    /\ ~clv_results.success

\* the sum of avg_spend x frequency x 12/10 over the rows in S
RECURSIVE ClvOver(_)
ClvOver(S) ==
    IF S = {} THEN Rat(0, 1)
    ELSE LET i == CHOOSE x \in S : TRUE
         IN  RatAdd(Reduced(customer_df[i].avg_spend.num
                              * customer_df[i].frequency * 12,
                            customer_df[i].avg_spend.den * 10),
                    ClvOver(S \ {i}))

(* C10: on success every customer with frequency >= 2, and no other, gets
   clv = avg_spend x frequency x 1.2; n_repeat is their number, total_clv the
   sum of their clv and avg_clv = total_clv / n_repeat *)
C10_ClvOfRepeatCustomers ==
    (clv_results.called /\ clv_results.success) =>
        LET rc == clv_results.repeat_customers
        IN  /\ clv_results.n_repeat = Cardinality(RepeatRows)
            /\ Len(rc) = Cardinality(RepeatRows)
            /\ {rc[i].client_name : i \in 1..Len(rc)}
                 = {customer_df[i].client_name : i \in RepeatRows}
            /\ \A i \in 1..Len(rc) :
                  /\ rc[i].frequency >= 2
                  /\ rc[i].clv.num * rc[i].avg_spend.den * 10
                       = rc[i].avg_spend.num * rc[i].frequency * 12 * rc[i].clv.den
            /\ RatEq(clv_results.total_clv, ClvOver(RepeatRows))
            /\ clv_results.avg_clv.num * clv_results.total_clv.den
                   * clv_results.n_repeat
                 = clv_results.total_clv.num * clv_results.avg_clv.den

C10_Witness ==
    /\ clv_results.called
    /\ clv_results.success
    /\ \E i \in 1..Len(customer_df) : customer_df[i].frequency = 1
    /\ \E i, j \in RepeatRows :
          customer_df[i].frequency # customer_df[j].frequency

\* the r-th largest of the keys (r = 1 for the largest), found by counting
RankValue(keys, r) ==
    LET i == CHOOSE x \in 1..Len(keys) :
                /\ Cardinality({j \in 1..Len(keys) : RatLt(keys[x], keys[j])}) < r
                /\ r <= Cardinality({j \in 1..Len(keys) : RatLe(keys[x], keys[j])})
    IN  keys[i]

RECURSIVE TopSum(_, _)
TopSum(keys, k) ==
    IF k = 0 THEN Int2Rat(0)
    ELSE RatAdd(RankValue(keys, k), TopSum(keys, k - 1))

(* C11: on success top_10_pct_clv is the mean clv of the k repeat customers
   with the largest clv, k = max(1, floor(n_repeat / 10)), and it is never
   below avg_clv *)
C11_TopDecileIsMeanOfLargest ==
    (clv_results.called /\ clv_results.success) =>
        LET clvs == Column(clv_results.repeat_customers, "clv")
            tenth == clv_results.n_repeat \div 10
            k == IF tenth >= 1 THEN tenth ELSE 1
        IN  /\ RatEq(RatMul(clv_results.top_10_pct_clv, Int2Rat(k)),
                     TopSum(clvs, k))
            /\ RatLe(clv_results.avg_clv, clv_results.top_10_pct_clv)

C11_Witness ==
    /\ clv_results.called
    /\ clv_results.success
    /\ clv_results.n_repeat >= 20
    /\ RatLt(clv_results.avg_clv, clv_results.top_10_pct_clv)
    /\ LET clvs == Column(clv_results.repeat_customers, "clv")
       IN  RatLt(RankValue(clvs, 2), RankValue(clvs, 1))

\* the median of the keys from their ranks
RankMedian(keys) ==
    LET n == Len(keys)
    IN  IF n % 2 = 1 THEN RankValue(keys, (n + 1) \div 2)
        ELSE RatDiv(RatAdd(RankValue(keys, n \div 2),
                           RankValue(keys, n \div 2 + 1)), Int2Rat(2))

\* rows of the whole customer table with frequency <= 4 and avg_spend
\* strictly above the median avg_spend of the whole table
Qualifying ==
    LET median == RankMedian(Column(customer_df, "avg_spend"))
    IN  {i \in 1..Len(customer_df) :
            /\ customer_df[i].frequency <= 4
            /\ RatLt(median, customer_df[i].avg_spend)}

(* C12: on success hidden_gems holds min(10, number of qualifying customers)
   distinct customers of the whole table, each with frequency <= 4 and
   avg_spend strictly above the median avg_spend of the whole table; no
   qualifying customer left out has a larger avg_spend than an included one;
   each gem carries projected_clv_if_regular = avg_spend * 12 *)
C12_HiddenGems ==
    (clv_results.called /\ clv_results.success) =>
        LET gems == clv_results.hidden_gems
            qualifying == Qualifying
            taken == {i \in qualifying :
                        \E g \in 1..Len(gems) :
                            gems[g].client_name = customer_df[i].client_name}
        IN  /\ Len(gems) <= 10
            /\ Len(gems) = (IF Cardinality(qualifying) < 10
                            THEN Cardinality(qualifying) ELSE 10)
            /\ Cardinality(taken) = Len(gems)
            /\ \A g \in 1..Len(gems) :
                  \E i \in qualifying :
                      /\ gems[g].client_name = customer_df[i].client_name
                      /\ gems[g].frequency = customer_df[i].frequency
                      /\ RatEq(gems[g].avg_spend, customer_df[i].avg_spend)
                      /\ RatEq(gems[g].projected_clv_if_regular,
                               RatMul(customer_df[i].avg_spend, Int2Rat(12)))
            /\ \A i \in qualifying \ taken :
                  \A g \in 1..Len(gems) :
                      ~RatLt(gems[g].avg_spend, customer_df[i].avg_spend)

C12_Witness ==
    /\ clv_results.called
    /\ clv_results.success
    /\ Len(clv_results.hidden_gems) = 10
    /\ Cardinality(Qualifying) > 10
    /\ \E g \in 1..10 : clv_results.hidden_gems[g].frequency = 1
    /\ \E i \in Qualifying :
          /\ \A g \in 1..10 :
                clv_results.hidden_gems[g].client_name
                    # customer_df[i].client_name
          /\ \E g \in 1..10 :
                RatLt(customer_df[i].avg_spend,
                      clv_results.hidden_gems[g].avg_spend)

\* the scores of row i of the aggregate as the specification defines them
DaysOf(i) == Val(customer_df[i].days_since_visit)

MaxDays ==
    SetMax({DaysOf(i) : i \in {j \in 1..Len(customer_df) :
                                  IsSome(customer_df[j].days_since_visit)}})

MaxFrequency == SetMax({customer_df[i].frequency : i \in 1..Len(customer_df)})

RecencyTerm(i) ==
    IF \A j \in 1..Len(customer_df) : customer_df[j].days_since_visit = None
    THEN Int2Rat(0)
    ELSE IF MaxDays <= 0 THEN Int2Rat(0)
    ELSE IF customer_df[i].days_since_visit = None THEN NaN
    ELSE IF MaxDays > 0 THEN Rat(7 * DaysOf(i), 10 * MaxDays)
    ELSE Int2Rat(0)

FrequencyTerm(i) ==
    IF MaxFrequency > 0
    THEN Rat(3 * (MaxFrequency - customer_df[i].frequency), 10 * MaxFrequency)
    ELSE Int2Rat(0)

Scored == churn_results.called /\ Len(customer_df) > 0

(* C13: in every non-empty aggregate each customer's p_churn is
   clip(0.7 * days_since_visit / max_days
        + 0.3 * (1 - frequency / max_frequency), 0, 1)
   and lies in [0, 1] *)
C13_ChurnProbabilityInUnitInterval ==
    Scored =>
        \A i \in 1..Len(customer_df) :
            LET p == churn_results.customer_df[i].p_churn
            IN  /\ RatLe(Int2Rat(0), p)
                /\ RatLe(p, Int2Rat(1))
                /\ RatEq(p, Clip01(RatAdd(RecencyTerm(i), FrequencyTerm(i))))

(* C14: each customer's risk level is high iff p_churn >= 0.70, medium iff
   0.40 <= p_churn < 0.70, low iff p_churn < 0.40, and the three counts of
   get_churn_summary add up to the number of customers *)
C14_RiskLevelByThresholds ==
    Scored =>
        /\ \A i \in 1..Len(customer_df) :
              LET row == churn_results.customer_df[i]
                  p == row.p_churn
              IN  /\ row.risk_level \in {"high", "medium", "low"}
                  /\ row.risk_level = "high" <=> RatLe(Rat(7, 10), p)
                  /\ row.risk_level = "medium" <=>
                        (RatLe(Rat(4, 10), p) /\ RatLt(p, Rat(7, 10)))
                  /\ row.risk_level = "low" <=> RatLt(p, Rat(4, 10))
        /\ churn_results.high_risk_count + churn_results.medium_risk_count
              + churn_results.low_risk_count = Len(customer_df)

(* C15: in a non-empty aggregate of size 1 or with all frequencies equal,
   frequency_score is 0 for every customer, nothing is raised, and
   p_churn = 0.7 * recency_score *)
C15_EqualFrequenciesLeaveRecencyOnly ==
    (Scored /\ \A i, j \in 1..Len(customer_df) :
                  customer_df[i].frequency = customer_df[j].frequency) =>
        /\ churn_results.raised = "none"
        /\ \A i \in 1..Len(customer_df) :
              LET row == churn_results.customer_df[i]
              IN  /\ RatEq(row.frequency_score, Int2Rat(0))
                  /\ RatEq(row.p_churn, RatMul(Rat(7, 10), row.recency_score))

\* the same number, or both not a number
SameValue(a, b) == (IsNaN(a) /\ IsNaN(b)) \/ RatEq(a, b)

(* C16: p_churn and risk_level of every customer are the same for the table
   and for the table with all days_since_visit multiplied by the same
   positive k *)
C16_RescalingDaysKeepsChurn ==
    (churn_results.called /\ rescaled_results.called) =>
        \A i \in 1..Len(customer_df) :
            LET before == churn_results.customer_df[i]
                after == rescaled_results.customer_df[i]
            IN  /\ after.frequency = before.frequency
                /\ SameValue(after.p_churn, before.p_churn)
                /\ after.risk_level = before.risk_level

C16_Witness ==
    /\ churn_results.called
    /\ rescaled_results.called
    /\ rescaled_results.k = 3
    /\ \E i, j \in 1..Len(customer_df) :
          /\ customer_df[i].days_since_visit = Some(2)
          /\ customer_df[j].days_since_visit = Some(3)
          /\ rescaled_results.customer_df[i].days_since_visit = Some(6)
          /\ rescaled_results.customer_df[i].risk_level = "medium"
          /\ rescaled_results.customer_df[j].risk_level = "high"

(* C18: when every customer has days_since_visit = 0, recency_score is 0 for
   all, p_churn = 0.3 * (1 - frequency / max_frequency), and the customers
   with the largest frequency have p_churn = 0 *)
C18_AllVisitedTodayFrequencyOnly ==
    (Scored /\ \A i \in 1..Len(customer_df) :
                  customer_df[i].days_since_visit = Some(0)) =>
        \A i \in 1..Len(customer_df) :
            LET row == churn_results.customer_df[i]
            IN  /\ RatEq(row.recency_score, Int2Rat(0))
                /\ RatEq(row.p_churn,
                         Rat(3 * (MaxFrequency - customer_df[i].frequency),
                             10 * MaxFrequency))
                /\ customer_df[i].frequency = MaxFrequency =>
                      RatEq(row.p_churn, Int2Rat(0))

C18_Witness ==
    /\ Scored
    /\ \A i \in 1..Len(customer_df) : customer_df[i].days_since_visit = Some(0)
    /\ \E i, j \in 1..Len(customer_df) :
          /\ customer_df[i].frequency = MaxFrequency
          /\ customer_df[j].frequency < MaxFrequency
          /\ RatLt(Int2Rat(0), churn_results.customer_df[j].p_churn)

(* C19: for every non-empty aggregate fit_zt_nbd returns f0 >= 0 and
   market_reached = n_observed / (n_observed + f0) with
   0 < market_reached <= 1, for every fitted (r, alpha) within the optimizer
   bounds *)
C19_LatentDemandInRange ==
    (nbd_results.called /\ Len(customer_df) > 0) =>
        /\ nbd_results.n_observed = Len(customer_df)
        /\ RatLe(Int2Rat(0), nbd_results.f0)
        /\ RatEq(RatMul(nbd_results.market_reached,
                        RatAdd(Int2Rat(Len(customer_df)), nbd_results.f0)),
                 Int2Rat(Len(customer_df)))
        /\ RatLt(Int2Rat(0), nbd_results.market_reached)
        /\ RatLe(nbd_results.market_reached, Int2Rat(1))

C19_Witness ==
    /\ nbd_results.called
    /\ Len(customer_df) > 1
    /\ nbd_results.r = OptimizerBounds.lo
    /\ nbd_results.alpha = OptimizerBounds.hi
    /\ RatLt(Int2Rat(1000 * Len(customer_df)), nbd_results.f0)
    /\ RatLt(nbd_results.market_reached, Rat(1, 1000))

\* the number of distinct frequency values of the aggregate, minus 2
DegreesOfFreedom ==
    Cardinality({customer_df[i].frequency : i \in 1..Len(customer_df)}) - 2

\* good below 2, moderate below 4, else poor
Band(per) ==
    IF RatLt(per, Int2Rat(2)) THEN "good"
    ELSE IF RatLt(per, Int2Rat(4)) THEN "moderate"
    ELSE "poor"

(* C20 as stated: fit_zt_nbd reports df = (number of distinct frequency
   values) - 2 and classifies fit quality by chi-square divided by df, for
   every histogram including those with one or two distinct values *)
C20_FitQualityPerDegreeOfFreedom ==
    nbd_results.called =>
        /\ nbd_results.df = DegreesOfFreedom
        /\ nbd_results.fit_quality =
              Band(RatDiv(nbd_results.chi_square, Int2Rat(DegreesOfFreedom)))

(* C20: fit_zt_nbd reports df = (number of distinct frequency values) - 2
   and classifies fit quality by chi-square divided by max(df, 1): good
   below 2, moderate below 4, else poor *)
C20_FitQualityPerGuardedDegree ==
    nbd_results.called =>
        LET divisor == IF DegreesOfFreedom >= 1 THEN DegreesOfFreedom ELSE 1
            chi_sq == nbd_results.chi_square
        IN  /\ nbd_results.df = DegreesOfFreedom
            /\ nbd_results.fit_quality = "good" <=>
                  RatLt(chi_sq, Int2Rat(2 * divisor))
            /\ nbd_results.fit_quality = "moderate" <=>
                  (RatLe(Int2Rat(2 * divisor), chi_sq)
                     /\ RatLt(chi_sq, Int2Rat(4 * divisor)))
            /\ nbd_results.fit_quality \in {"good", "moderate", "poor"}

C20_Witness ==
    /\ nbd_results.called
    /\ nbd_results.df = -1
    /\ nbd_results.chi_square = Int2Rat(8)
    /\ nbd_results.fit_quality = "poor"

(* C21: in a dashboard script run whose CLV tab got success = false from
   fit_gamma_gamma, the Churn tab still calls get_churn_summary and gets a
   churn result; on the Churn page a failed fit leaves the high-risk list
   with total_spend as the value of each customer *)
C21_FailedFitDoesNotBlockChurn ==
    /\ (pc # "idle" /\ clv_results.called /\ ~clv_results.success)
          ~> (pc = "done" /\ churn_results.called
                /\ churn_results.raised = "none"
                /\ Len(churn_results.customer_df) = Len(customer_df))
    /\ [](churn_page.called /\ ~churn_page.success =>
            LET expected == SelectSeq(calculate_churn_probability(customer_df),
                                      IsHigh)
            IN  /\ Len(churn_page.high_risk) = Len(expected)
                /\ \A i \in 1..Len(expected) :
                      /\ churn_page.high_risk[i].client_name
                            = expected[i].client_name
                      /\ RatEq(churn_page.high_risk[i].clv,
                               Int2Rat(expected[i].total_spend)))

C21_Witness ==
    /\ pc = "done"
    /\ clv_results.called
    /\ ~clv_results.success
    /\ churn_results.called
    /\ churn_results.high_risk_count > 0
    /\ churn_page.called
    /\ ~churn_page.success
    /\ Len(churn_page.high_risk) > 1

\* the client_name and status of the rows a path retained
Retained(df) ==
    [i \in 1..Len(df) |->
        [client_name |-> df[i].client_name, status |-> df[i].status]]

(* C22: every transaction either ingestion path hands to the aggregator has
   an accepted or completed status, and load_and_process_csv and
   process_and_finalize retain the same rows of a file *)
C22_BothPathsKeepAcceptedOnly ==
    /\ (raw_data.called /\ raw_data.error = "none") =>
          \A i \in 1..Len(raw_data.df) :
              Lower(raw_data.df[i].status) \in {"accepted", "completed"}
    /\ wizard_data.called =>
          \A i \in 1..Len(wizard_data.df) :
              Lower(wizard_data.df[i].status) \in {"accepted", "completed"}
    /\ (raw_data.called /\ raw_data.error = "none" /\ wizard_data.called) =>
          Retained(raw_data.df) = Retained(wizard_data.df)

\* a required column is absent from the file
LacksRequired(file) ==
    file # NoFile /\ {"client_name", "start", "status"} \ file.columns # {}

\* C23: a file that lacks client_name, start or status is rejected by
\* load_and_process_csv with a ValueError and no table, and the run of the
\* upload view that received it leaves raw_data, customer_data, data_loaded
\* and current_view of the session as they were
C23_MissingColumnLeavesSession ==
    [][LacksRequired(uploaded_file') =>
         /\ raw_data'.error = "ValueError"
         /\ raw_data'.df = << >>
         /\ session'.raw_data = session.raw_data
         /\ session'.customer_data = session.customer_data
         /\ session'.data_loaded = session.data_loaded
         /\ session'.current_view = session.current_view]_vars

\* the upload view holds a loaded table and has just rejected a file
C23_Witness ==
    /\ LacksRequired(uploaded_file)
    /\ raw_data.error = "ValueError"
    /\ session.current_view = "upload"
    /\ session.raw_data # None

\* C26: under every interleaving of the home-page actions and the
\* Upload-page actions, the dashboard view is only current while the
\* session holds a raw table and a customer table
C26_DashboardHasData ==
    session.current_view = "dashboard" =>
        session.raw_data # None /\ session.customer_data # None

\* C27: data_loaded is only true in a logged-in session
C27_DataLoadedImpliesLoggedIn ==
    session.data_loaded => session.logged_in

Views == {"login", "upload", "dashboard"}

\* the view changes from one step to the next
ViewBecomes(view) ==
    session.current_view # view /\ session'.current_view = view

\* C28: current_view is always one of login, upload, dashboard, and is
\* upload or dashboard only in a logged-in session; it becomes upload only
\* from login with a non-empty email and business name, becomes dashboard
\* only from upload with the customer table computed, and returns to login
\* only with the session logged out
C28_ViewOrder ==
    /\ [](/\ session.current_view \in Views
          /\ session.current_view \in {"upload", "dashboard"}
                => session.logged_in)
    /\ [][/\ ViewBecomes("upload") =>
                /\ session.current_view = "login"
                /\ session'.email \notin {None, Some("")}
                /\ session'.business_name \notin {None, Some("")}
          /\ ViewBecomes("dashboard") =>
                /\ session.current_view = "upload"
                /\ session'.data_loaded
                /\ session'.customer_data # None
                /\ session'.raw_data # None
          /\ ViewBecomes("login") =>
                /\ ~session'.logged_in
                /\ session.logged_in]_vars

\* a session that went from login through upload to the dashboard
C28_Witness ==
    /\ session.current_view = "dashboard"
    /\ session.logged_in
    /\ session.email = Some("you@business.com")
    /\ session.business_name = Some("Acme Coffee Shop")
    /\ session.data_loaded

\* C24: aggregate_to_customers leaves the raw table as it was loaded, so
\* after any sequence of aggregations over any windows the customer table
\* of a window is the aggregate of that window over the loaded transactions
C24_AggregationLeavesRawTable ==
    /\ [][raw_data.called => raw_data' = raw_data]_vars
    /\ [](agg_call.called =>
            customer_df = aggregate_to_customers(raw_data.df,
                              agg_call.start_date, agg_call.end_date,
                              agg_call.today))

\* an aggregation over a window that leaves transactions out, with the raw
\* table still holding them
C24_Witness ==
    /\ agg_call.called
    /\ raw_data.df # << >>
    /\ Len(FilterTo(FilterFrom(raw_data.df, agg_call.start_date),
                    agg_call.end_date)) < Len(raw_data.df)
    /\ customer_df # aggregate_to_customers(raw_data.df, None, None,
                                            agg_call.today)

\* the start times present in a raw table
StartsOf(df) == {Val(df[i].start) : i \in {k \in 1..Len(df) : IsSome(df[k].start)}}

\* raw_df["start"].min().date() and raw_df["start"].max().date(): the
\* defaults of the From and To inputs of a tab
DefaultFrom(df) ==
    Some((CHOOSE t \in StartsOf(df) : \A u \in StartsOf(df) : t <= u)
            \div TicksPerDay)

DefaultTo(df) ==
    Some((CHOOSE t \in StartsOf(df) : \A u \in StartsOf(df) : t >= u)
            \div TicksPerDay)

\* C25: with the default window of a tab, From the date of the earliest
\* transaction and To the date of the latest, the customer table is the one
\* computed without a window, transactions after midnight of the last day
\* included
C25_DefaultWindowKeepsAll ==
    (/\ agg_call.called
     /\ StartsOf(raw_data.df) # {}
     /\ agg_call.start_date = DefaultFrom(raw_data.df)
     /\ agg_call.end_date = DefaultTo(raw_data.df))
        => customer_df = aggregate_to_customers(raw_data.df, None, None,
                                                agg_call.today)

\* every customer has a days_since_visit, and none is negative
NonNegativeDays ==
    \A i \in 1..Len(customer_df) :
        /\ IsSome(customer_df[i].days_since_visit)
        /\ DaysOf(i) >= 0

\* low < medium < high
RiskRank(level) ==
    CASE level = "low" -> 0
      [] level = "medium" -> 1
      [] level = "high" -> 2

(* C29: with non-negative days_since_visit, of two customers with equal
   frequency the one with more days since the last visit has p_churn at
   least as large, of two customers with equal days the one with the larger
   frequency has p_churn at most as large, and the risk levels are in the
   same order *)
C29_ChurnMonotone ==
    (Scored /\ NonNegativeDays) =>
        \A i, j \in 1..Len(customer_df) :
            LET a == churn_results.customer_df[i]
                b == churn_results.customer_df[j]
            IN  /\ (a.frequency = b.frequency /\ DaysOf(i) >= DaysOf(j)) =>
                      /\ RatLe(b.p_churn, a.p_churn)
                      /\ RiskRank(a.risk_level) >= RiskRank(b.risk_level)
                /\ (DaysOf(i) = DaysOf(j) /\ a.frequency >= b.frequency) =>
                      /\ RatLe(a.p_churn, b.p_churn)
                      /\ RiskRank(a.risk_level) <= RiskRank(b.risk_level)

\* a scored table with two customers of equal frequency and different days,
\* and two of equal days and different frequency, the scores differing
C29_Witness ==
    /\ Scored
    /\ NonNegativeDays
    /\ \E i, j \in 1..Len(customer_df) :
          /\ customer_df[i].frequency = customer_df[j].frequency
          /\ DaysOf(i) > DaysOf(j)
          /\ RatLt(churn_results.customer_df[j].p_churn,
                   churn_results.customer_df[i].p_churn)
    /\ \E i, j \in 1..Len(customer_df) :
          /\ DaysOf(i) = DaysOf(j)
          /\ customer_df[i].frequency > customer_df[j].frequency
          /\ RatLt(churn_results.customer_df[i].p_churn,
                   churn_results.customer_df[j].p_churn)

\* the customers with a days_since_visit
Dated == {i \in 1..Len(customer_df) : IsSome(customer_df[i].days_since_visit)}

(* C30: when the largest days_since_visit is positive, every customer
   holding it is at high risk whatever the frequency, so high_risk_count is
   at least 1; high_risk_count is 0 only when no customer has a positive
   days_since_visit *)
C30_LongestAbsentIsHighRisk ==
    Scored =>
        /\ (Dated # {} /\ MaxDays > 0) =>
              /\ \A i \in Dated :
                    DaysOf(i) = MaxDays =>
                        churn_results.customer_df[i].risk_level = "high"
              /\ churn_results.high_risk_count >= 1
        /\ churn_results.high_risk_count = 0 =>
              \A i \in Dated : DaysOf(i) <= 0

\* the customer absent longest also has the largest frequency: p_churn is
\* exactly 0.7
C30_Witness ==
    /\ Scored
    /\ Dated # {}
    /\ MaxDays > 0
    /\ \E i \in Dated :
          /\ DaysOf(i) = MaxDays
          /\ customer_df[i].frequency = MaxFrequency
          /\ RatEq(churn_results.customer_df[i].p_churn, Rat(7, 10))
          /\ churn_results.customer_df[i].risk_level = "high"
    /\ Len(customer_df) > 1

====
